---- MODULE Spec2Model ----
(***************************************************************************)
(* State machine of the permission-matrix editor of admin-proto.           *)
(*                                                                         *)
(* The Group Roles editor (GroupRolesClient) is modelled handler by        *)
(* handler.  The Security Rules editor (SecurityRulesClient.tsx) has the   *)
(* same handlers over entities without a description field.               *)
(*                                                                         *)
(* React state is immutable: every handler builds new arrays and objects   *)
(* and hands them to a setter, so the state is modelled by value.  A       *)
(* handler runs to completion on the state of the render it was created    *)
(* in, and the next user gesture sees the state it left.                   *)
(*                                                                         *)
(* The model is the state machine of the handlers.  What the view derives  *)
(* from a state to render it (selectedRole, the rows of the table, the     *)
(* entries of the dropdown) is a derived value, not a step.                *)
(***************************************************************************)
EXTENDS Integers, Sequences, FiniteSets, TLC

(***************************************************************************)
(* Bounds of the model.                                                    *)
(***************************************************************************)
\* Number of operations that grow the state (draft edits: rename,
\* description, toggle, attach, detach; and additions of a role) explored in
\* one behaviour.  Selecting, saving and the deletion round trip are not
\* counted.
MaxOps == 2

(***************************************************************************)
(* JavaScript numbers that the handlers produce.                           *)
(***************************************************************************)
\* Math.max() of no arguments is -Infinity.  It is encoded as an integer
\* below every finite identifier, so that comparisons order it as JavaScript
\* does; Plus1 and NumStr treat it as JavaScript treats -Infinity.
NegInfinity == -1

\* The value confirmDeleteRole selects when no role is left.
NoSelection == 0

\* x + 1 in JavaScript: -Infinity + 1 is -Infinity.
Plus1(x) == IF x = NegInfinity THEN NegInfinity ELSE x + 1

\* The template literal `${newId}`.
NumStr(x) == IF x = NegInfinity THEN "-Infinity" ELSE ToString(x)

(***************************************************************************)
(* Static data.                                                            *)
(***************************************************************************)
\* The description of a new role: ''.
EmptyString == ""

allPermissions == <<"Read", "Add", "Edit", "Modify", "Delete", "Post">>

allResources ==
  <<"Group Members", "Forum Categories", "Category1", "Category2",
    "User Profiles", "System Settings", "Audit Logs">>

initialRoles ==
  << [id |-> 1, name |-> "Member",
      description |-> "Basic access for regular users",
      resources |->
        << [name |-> "Group Members", permissions |-> <<"Read", "Add", "Delete">>],
           [name |-> "Forum Categories",
            permissions |-> <<"Read", "Add", "Modify", "Delete", "Post">>],
           [name |-> "Category1", permissions |-> <<"Edit", "Delete", "Post">>],
           [name |-> "Category2", permissions |-> <<"Post">>] >>],
     [id |-> 2, name |-> "Admin",
      description |-> "Full access for administrators",
      resources |->
        << [name |-> "Group Members", permissions |-> <<"Read", "Add", "Delete">>],
           [name |-> "Forum Categories",
            permissions |-> <<"Read", "Add", "Modify", "Delete", "Post">>] >>],
     [id |-> 3, name |-> "Moderator",
      description |-> "Moderation capabilities for forum content",
      resources |->
        << [name |-> "Forum Categories",
            permissions |-> <<"Read", "Edit", "Modify", "Delete", "Post">>],
           [name |-> "Category1", permissions |-> <<"Read", "Edit", "Delete", "Post">>],
           [name |-> "Category2", permissions |-> <<"Read", "Edit", "Post">>] >>] >>

\* initialRules of SecurityRulesClient: a rule has no description.
initialRules ==
  << [id |-> 1, name |-> "Default Rule",
      resources |->
        << [name |-> "Group Members", permissions |-> <<"Read", "Add", "Delete">>],
           [name |-> "Forum Categories",
            permissions |-> <<"Read", "Add", "Modify", "Delete", "Post">>],
           [name |-> "Category1", permissions |-> <<"Edit", "Delete", "Post">>],
           [name |-> "Category2", permissions |-> <<"Post">>] >>],
     [id |-> 2, name |-> "Admin Rule",
      resources |->
        << [name |-> "Group Members", permissions |-> <<"Read", "Add", "Delete">>],
           [name |-> "Forum Categories",
            permissions |-> <<"Read", "Add", "Modify", "Delete", "Post">>] >>] >>

(***************************************************************************)
(* What the user can type or pick.                                         *)
(***************************************************************************)
\* Values typed into the name input and the description textarea.
NameInputs == {"Renamed"}
DescriptionInputs == {"Changed"}
\* The permission chip the user clicks: some seeded attachments hold Edit
\* and some lack it.
PermissionInputs == {"Edit"}
\* The catalog entry the user picks in the resource dropdown: no seeded role
\* has it attached.
ResourceInputs == {"User Profiles"}
\* The rows of a table of n attachments the user clicks in: the first and the
\* last (indices count from 0, as in the source).
IndexInputs(n) == {i \in {0, n - 1} : i >= 0}

(***************************************************************************)
(* Array helpers.                                                          *)
(***************************************************************************)
Range(s) == {s[i] : i \in 1..Len(s)}

\* roles.map(role => role.id)
Ids(rs) == [i \in 1..Len(rs) |-> rs[i].id]

\* currentPermissions.filter(p => p !== permission)
FilterPermissions(currentPermissions, permission) ==
  SelectSeq(currentPermissions, LAMBDA p : p # permission)

\* roles.filter(role => role.id !== roleId)
FilterRoles(rs, roleId) == SelectSeq(rs, LAMBDA role : role.id # roleId)

\* roles.find(r => r.id === roleId): the index of the first match, 0 for
\* undefined.
FindIndex(rs, roleId) ==
  IF \E i \in 1..Len(rs) : rs[i].id = roleId
  THEN CHOOSE i \in 1..Len(rs) :
         /\ rs[i].id = roleId
         /\ \A j \in 1..(i - 1) : rs[j].id # roleId
  ELSE 0

\* The role roles.find(r => r.id === roleId) returns, where there is one.
Find(rs, roleId) == rs[FindIndex(rs, roleId)]

\* Math.max(...xs)
MathMax(xs) ==
  IF xs = <<>> THEN NegInfinity
  ELSE CHOOSE m \in Range(xs) : \A x \in Range(xs) : x <= m

\* Mutant of Includes: the permission is never found.
Includes_Never(s, x) == FALSE

\* currentPermissions.includes(permission)
Includes(s, x) == \E i \in 1..Len(s) : s[i] = x

\* Mutant of Splice: splice(index + 1, 1), the attachment after the one asked
\* for is removed, none when the last one is asked for.
Splice_OffByOne(s, index) ==
  IF index + 1 >= Len(s) THEN s
  ELSE [i \in 1..(Len(s) - 1) |-> IF i <= index + 1 THEN s[i] ELSE s[i + 1]]

\* updatedResources.splice(index, 1) on a copy, index counted from 0.
Splice(s, index) ==
  [i \in 1..(Len(s) - 1) |-> IF i <= index THEN s[i] ELSE s[i + 1]]

(***************************************************************************)
(* State.                                                                  *)
(***************************************************************************)
VARIABLES
  roles,                  \* useState(initialRoles)
  selectedRoleId,         \* useState(1)
  editingRole,            \* useState(initialRoles[0])
  deletingRoleId,         \* useState(null)
  isResourceDropdownOpen, \* useState(false)
  edits,                  \* history: draft edits made so far
  adds,                   \* history: roles added so far
  assignedIds,            \* history: identifiers given to an entity so far
  rules,                  \* SecurityRulesClient: useState(initialRules)
  selectedRuleId,         \* SecurityRulesClient: useState(1)
  editingRule,            \* SecurityRulesClient: useState(initialRules[0])
  deletingRuleId,         \* SecurityRulesClient: useState(null)
  isRuleDropdownOpen      \* SecurityRulesClient: isResourceDropdownOpen

\* The state of SecurityRulesClient.
ruleVars == <<rules, selectedRuleId, editingRule, deletingRuleId,
              isRuleDropdownOpen>>

vars == <<roles, selectedRoleId, editingRole, deletingRoleId,
          isResourceDropdownOpen, edits, adds, assignedIds, ruleVars>>

\* deletingRoleId is number | null: null is the empty tuple and a number n
\* is the tuple <<n>>.
Null == <<>>
Num(n) == <<n>>

\* SecurityRulesClient after construction.
InitRules ==
  /\ rules = initialRules
  /\ selectedRuleId = 1
  /\ editingRule = initialRules[1]
  /\ deletingRuleId = Null
  /\ isRuleDropdownOpen = FALSE

Init ==
  /\ roles = initialRoles
  /\ selectedRoleId = 1
  /\ editingRole = initialRoles[1]
  /\ deletingRoleId = Null
  /\ isResourceDropdownOpen = FALSE
  /\ edits = 0
  /\ adds = 0
  /\ assignedIds = Range(Ids(initialRoles))
  /\ InitRules

\* The role the view shows in its header: 0 stands for undefined.
selectedRole ==
  IF FindIndex(roles, selectedRoleId) # 0 THEN FindIndex(roles, selectedRoleId)
  ELSE IF Len(roles) > 0 THEN 1 ELSE 0

(***************************************************************************)
(* Handlers.                                                               *)
(***************************************************************************)
\* Mutant of handleSelectRole: the selection is set and the draft is left.
handleSelectRole_KeepDraft(roleId) ==
  /\ selectedRoleId' = roleId
  /\ UNCHANGED <<roles, editingRole, deletingRoleId, edits, adds, assignedIds>>

handleSelectRole(roleId) ==
  /\ selectedRoleId' = roleId
  /\ editingRole' = IF FindIndex(roles, roleId) # 0
                    THEN Find(roles, roleId)
                    ELSE editingRole
  /\ UNCHANGED <<roles, deletingRoleId, edits, adds, assignedIds>>

handleRoleNameChange(value) ==
  /\ editingRole' = [editingRole EXCEPT !.name = value]
  /\ edits' = edits + 1
  /\ UNCHANGED <<roles, selectedRoleId, deletingRoleId, adds, assignedIds>>

handleRoleDescriptionChange(value) ==
  /\ editingRole' = [editingRole EXCEPT !.description = value]
  /\ edits' = edits + 1
  /\ UNCHANGED <<roles, selectedRoleId, deletingRoleId, adds, assignedIds>>

\* Mutant of updatedResources: the permission is pushed without looking
\* whether the attachment holds it.
updatedResources_AlwaysAdd(resources, resourceIndex, permission) ==
  [resources EXCEPT ![resourceIndex + 1].permissions = Append(@, permission)]

\* updatedResources of handlePermissionChange: the attachments of the draft
\* with the permission toggled in the attachment at resourceIndex.
updatedResources(resources, resourceIndex, permission) ==
  LET currentPermissions == resources[resourceIndex + 1].permissions
  IN  IF Includes(currentPermissions, permission)
      THEN [resources EXCEPT ![resourceIndex + 1].permissions =
              FilterPermissions(currentPermissions, permission)]
      ELSE [resources EXCEPT ![resourceIndex + 1].permissions =
              Append(currentPermissions, permission)]

\* Mutant of handlePermissionChange: the toggle is made in place, on the
\* attachment object that the draft shares with the role of the collection
\* it was copied from ({ ...role } is a shallow copy), so the collection
\* changes with the draft.
handlePermissionChange_InPlace(resourceIndex, permission) ==
  /\ resourceIndex + 1 \in 1..Len(editingRole.resources)
  /\ LET currentPermissions == editingRole.resources[resourceIndex + 1].permissions
         toggled ==
           IF Includes(currentPermissions, permission)
           THEN FilterPermissions(currentPermissions, permission)
           ELSE Append(currentPermissions, permission)
         edited ==
           [editingRole EXCEPT !.resources[resourceIndex + 1].permissions = toggled]
     IN  /\ editingRole' = edited
         /\ roles' = [i \in 1..Len(roles) |->
                        IF roles[i].id = editingRole.id THEN edited ELSE roles[i]]
  /\ edits' = edits + 1
  /\ UNCHANGED <<selectedRoleId, deletingRoleId, adds, assignedIds>>

\* Mutant of handlePermissionChange: the toggle is made in the first
\* attachment, whichever row the chip is in.
handlePermissionChange_FirstRow(resourceIndex, permission) ==
  /\ resourceIndex + 1 \in 1..Len(editingRole.resources)
  /\ editingRole' =
       [editingRole EXCEPT !.resources = updatedResources(@, 0, permission)]
  /\ edits' = edits + 1
  /\ UNCHANGED <<roles, selectedRoleId, deletingRoleId, adds, assignedIds>>

\* resourceIndex counts from 0, as in the source.  The view offers the chips
\* of the rows of the table only; on any other index the handler throws
\* before it sets any state.
handlePermissionChange(resourceIndex, permission) ==
  /\ resourceIndex + 1 \in 1..Len(editingRole.resources)
  /\ editingRole' =
       [editingRole EXCEPT
          !.resources = updatedResources(@, resourceIndex, permission)]
  /\ edits' = edits + 1
  /\ UNCHANGED <<roles, selectedRoleId, deletingRoleId, adds, assignedIds>>

\* Mutant of handleSaveChanges: the saved role is taken out of the list and
\* put back at its end.
handleSaveChanges_MoveToEnd ==
  /\ roles' = IF FindIndex(roles, editingRole.id) # 0
              THEN Append(FilterRoles(roles, editingRole.id),
                          editingRole)
              ELSE roles
  /\ UNCHANGED <<selectedRoleId, editingRole, deletingRoleId, edits, adds,
                 assignedIds>>

\* Mutant of handleSaveChanges: a draft whose id no role has is appended.
handleSaveChanges_Upsert ==
  /\ roles' = IF FindIndex(roles, editingRole.id) # 0
              THEN [i \in 1..Len(roles) |->
                      IF roles[i].id = editingRole.id THEN editingRole
                      ELSE roles[i]]
              ELSE Append(roles, editingRole)
  /\ UNCHANGED <<selectedRoleId, editingRole, deletingRoleId, edits, adds,
                 assignedIds>>

handleSaveChanges ==
  /\ roles' = [i \in 1..Len(roles) |->
                 IF roles[i].id = editingRole.id THEN editingRole ELSE roles[i]]
  /\ UNCHANGED <<selectedRoleId, editingRole, deletingRoleId, edits, adds,
                 assignedIds>>

\* Mutant of handleAddRole: setEditingRole(newRole) is forgotten.
handleAddRole_KeepDraft ==
  /\ LET newId == Plus1(MathMax(Ids(roles)))
         newRole == [id |-> newId,
                     name |-> "New " \o NumStr(newId),
                     description |-> EmptyString,
                     resources |-> <<>>]
     IN  /\ roles' = Append(roles, newRole)
         /\ selectedRoleId' = newId
         /\ assignedIds' = assignedIds \cup {newId}
  /\ adds' = adds + 1
  /\ UNCHANGED <<editingRole, deletingRoleId, edits>>

handleAddRole ==
  /\ LET newId == Plus1(MathMax(Ids(roles)))
         newRole == [id |-> newId,
                     name |-> "New " \o NumStr(newId),
                     description |-> EmptyString,
                     resources |-> <<>>]
     IN  /\ roles' = Append(roles, newRole)
         /\ selectedRoleId' = newId
         /\ editingRole' = newRole
         /\ assignedIds' = assignedIds \cup {newId}
  /\ adds' = adds + 1
  /\ UNCHANGED <<deletingRoleId, edits>>

\* Mutant of handleDeleteRole: the role is removed at once, without the
\* confirmation.
handleDeleteRole_Immediately(roleId) ==
  /\ deletingRoleId' = Num(roleId)
  /\ roles' = FilterRoles(roles, roleId)
  /\ UNCHANGED <<selectedRoleId, editingRole, edits, adds, assignedIds>>

handleDeleteRole(roleId) ==
  /\ deletingRoleId' = Num(roleId)
  /\ UNCHANGED <<roles, selectedRoleId, editingRole, edits, adds, assignedIds>>

\* Mutant of confirmDeleteRole: the selection is left alone when the selected
\* role is deleted.
confirmDeleteRole_KeepSelection ==
  IF deletingRoleId = Null
  THEN UNCHANGED <<roles, selectedRoleId, editingRole, deletingRoleId,
                   edits, adds, assignedIds>>
  ELSE /\ roles' = FilterRoles(roles, deletingRoleId[1])
       /\ deletingRoleId' = Null
       /\ UNCHANGED <<selectedRoleId, editingRole, edits, adds, assignedIds>>

\* Mutant of confirmDeleteRole: the last remaining role is selected instead of
\* the first.
confirmDeleteRole_SelectLast ==
  IF deletingRoleId = Null
  THEN UNCHANGED <<roles, selectedRoleId, editingRole, deletingRoleId,
                   edits, adds, assignedIds>>
  ELSE LET updatedRoles == FilterRoles(roles, deletingRoleId[1])
       IN  /\ roles' = updatedRoles
           /\ IF Num(selectedRoleId) = deletingRoleId
              THEN /\ selectedRoleId' = IF Len(updatedRoles) > 0
                                        THEN updatedRoles[Len(updatedRoles)].id
                                        ELSE NoSelection
                   /\ editingRole' = IF Len(updatedRoles) > 0
                                     THEN updatedRoles[Len(updatedRoles)]
                                     ELSE editingRole
              ELSE UNCHANGED <<selectedRoleId, editingRole>>
           /\ deletingRoleId' = Null
           /\ UNCHANGED <<edits, adds, assignedIds>>

\* Mutant of confirmDeleteRole: setDeletingRoleId(null) is forgotten.
confirmDeleteRole_KeepLatch ==
  IF deletingRoleId = Null
  THEN UNCHANGED <<roles, selectedRoleId, editingRole, deletingRoleId,
                   edits, adds, assignedIds>>
  ELSE LET updatedRoles == FilterRoles(roles, deletingRoleId[1])
       IN  /\ roles' = updatedRoles
           /\ IF Num(selectedRoleId) = deletingRoleId
              THEN /\ selectedRoleId' = IF Len(updatedRoles) > 0
                                        THEN updatedRoles[1].id
                                        ELSE NoSelection
                   /\ editingRole' = IF Len(updatedRoles) > 0
                                     THEN updatedRoles[1]
                                     ELSE editingRole
              ELSE UNCHANGED <<selectedRoleId, editingRole>>
           /\ UNCHANGED <<deletingRoleId, edits, adds, assignedIds>>

\* Mutant of confirmDeleteRole: the first remaining role is selected after
\* every deletion, whichever role was deleted.
confirmDeleteRole_AlwaysReselect ==
  IF deletingRoleId = Null
  THEN UNCHANGED <<roles, selectedRoleId, editingRole, deletingRoleId,
                   edits, adds, assignedIds>>
  ELSE LET updatedRoles == FilterRoles(roles, deletingRoleId[1])
       IN  /\ roles' = updatedRoles
           /\ selectedRoleId' = IF Len(updatedRoles) > 0
                                THEN updatedRoles[1].id
                                ELSE NoSelection
           /\ editingRole' = IF Len(updatedRoles) > 0
                             THEN updatedRoles[1]
                             ELSE editingRole
           /\ deletingRoleId' = Null
           /\ UNCHANGED <<edits, adds, assignedIds>>

confirmDeleteRole ==
  IF deletingRoleId = Null
  THEN UNCHANGED <<roles, selectedRoleId, editingRole, deletingRoleId,
                   edits, adds, assignedIds>>
  ELSE LET updatedRoles == FilterRoles(roles, deletingRoleId[1])
       IN  /\ roles' = updatedRoles
           /\ IF Num(selectedRoleId) = deletingRoleId
              THEN /\ selectedRoleId' = IF Len(updatedRoles) > 0
                                        THEN updatedRoles[1].id
                                        ELSE NoSelection
                   /\ editingRole' = IF Len(updatedRoles) > 0
                                     THEN updatedRoles[1]
                                     ELSE editingRole
              ELSE UNCHANGED <<selectedRoleId, editingRole>>
           /\ deletingRoleId' = Null
           /\ UNCHANGED <<edits, adds, assignedIds>>

cancelDeleteRole ==
  /\ deletingRoleId' = Null
  /\ UNCHANGED <<roles, selectedRoleId, editingRole, edits, adds, assignedIds>>

\* index counts from 0, as in the source.  The view offers the remove button
\* of the rows of the table only.
handleRemoveResource(index) ==
  /\ index + 1 \in 1..Len(editingRole.resources)
  /\ editingRole' = [editingRole EXCEPT !.resources = Splice(@, index)]
  /\ edits' = edits + 1
  /\ UNCHANGED <<roles, selectedRoleId, deletingRoleId, adds, assignedIds>>

\* The button that opens and closes the resource dropdown.
toggleResourceDropdown ==
  /\ isResourceDropdownOpen' = ~isResourceDropdownOpen
  /\ UNCHANGED <<roles, selectedRoleId, editingRole, deletingRoleId, edits,
                 adds, assignedIds>>

\* Mutant of dropdownResources: the catalog is listed unfiltered.
dropdownResources_Unfiltered ==
  {allResources[i] : i \in 1..Len(allResources)}

\* The entries the open dropdown lists: catalog resources not in the draft.
dropdownResources ==
  {allResources[i] : i \in 1..Len(allResources)}
    \ {editingRole.resources[i].name : i \in 1..Len(editingRole.resources)}

\* Mutant of attachResource: the new attachment is put before the others.
attachResource_Prepend(resource) ==
  /\ isResourceDropdownOpen' = FALSE
  /\ editingRole' =
       [editingRole EXCEPT
          !.resources = <<[name |-> resource, permissions |-> <<>>]>> \o @]
  /\ edits' = edits + 1
  /\ UNCHANGED <<roles, selectedRoleId, deletingRoleId, adds, assignedIds>>

\* onClick of a dropdown entry.
attachResource(resource) ==
  /\ isResourceDropdownOpen' = FALSE
  /\ editingRole' =
       [editingRole EXCEPT
          !.resources = Append(@, [name |-> resource, permissions |-> <<>>])]
  /\ edits' = edits + 1
  /\ UNCHANGED <<roles, selectedRoleId, deletingRoleId, adds, assignedIds>>

(***************************************************************************)
(* User gestures the view offers in the current state.                     *)
(*                                                                         *)
(* The gestures are those of the mouse.  The mousedown of a click outside  *)
(* the resource dropdown runs handleClickOutside, and the view is rendered *)
(* again before the click reaches its handler; the dropdown button and the *)
(* entries of the dropdown are inside it.                                  *)
(***************************************************************************)
\* The mousedown listener of the document, for a target outside the dropdown.
handleClickOutside ==
  isResourceDropdownOpen' = IF isResourceDropdownOpen THEN FALSE
                            ELSE isResourceDropdownOpen

\* Spec explores MaxOps state-growing operations per behaviour.
WithinBudget == edits + adds < MaxOps

\* SpecDeep explores one operation more, of which at most one is a draft
\* edit.
WithinDeepBudget == edits + adds < MaxOps + 1
WithinDeepEditBudget == WithinDeepBudget /\ edits = 0

\* A click on a role of the list.
ClickRole ==
  /\ handleClickOutside
  /\ \E i \in 1..Len(roles) : handleSelectRole(roles[i].id)
  /\ UNCHANGED ruleVars

\* The Cancel button of the edit panel.
ClickCancel ==
  /\ handleClickOutside /\ handleSelectRole(selectedRoleId)
  /\ UNCHANGED ruleVars

\* The name input is clicked and a value is typed into it.
TypeName(withinBudget) ==
  /\ withinBudget
  /\ handleClickOutside
  /\ \E value \in NameInputs : handleRoleNameChange(value)
  /\ UNCHANGED ruleVars

\* The description textarea is clicked and a value is typed into it.
TypeDescription(withinBudget) ==
  /\ withinBudget
  /\ handleClickOutside
  /\ \E value \in DescriptionInputs : handleRoleDescriptionChange(value)
  /\ UNCHANGED ruleVars

\* A click on a permission chip of a row of the table.
ClickPermission(withinBudget) ==
  /\ withinBudget
  /\ handleClickOutside
  /\ \E index \in IndexInputs(Len(editingRole.resources)) :
       \E permission \in PermissionInputs :
         handlePermissionChange(index, permission)
  /\ UNCHANGED ruleVars

ClickSave ==
  /\ handleClickOutside /\ handleSaveChanges
  /\ UNCHANGED ruleVars

ClickAddRole(withinBudget) ==
  /\ withinBudget /\ handleClickOutside /\ handleAddRole
  /\ UNCHANGED ruleVars

\* Mutant of ClickDelete: a delete button stays for every seeded role,
\* deleted or not.
ClickDelete_SeededRoles ==
  /\ handleClickOutside
  /\ \E i \in 1..Len(initialRoles) : handleDeleteRole(initialRoles[i].id)
  /\ UNCHANGED ruleVars

\* The delete button of a role of the list.
ClickDelete ==
  /\ handleClickOutside
  /\ \E i \in 1..Len(roles) : handleDeleteRole(roles[i].id)
  /\ UNCHANGED ruleVars

\* The confirmation dialog is rendered while deletingRoleId is not null.
ClickConfirmDelete ==
  /\ deletingRoleId # Null /\ handleClickOutside /\ confirmDeleteRole
  /\ UNCHANGED ruleVars

ClickCancelDelete ==
  /\ deletingRoleId # Null /\ handleClickOutside /\ cancelDeleteRole
  /\ UNCHANGED ruleVars

\* The remove button of a row of the table.
ClickRemoveResource(withinBudget) ==
  /\ withinBudget
  /\ handleClickOutside
  /\ \E index \in IndexInputs(Len(editingRole.resources)) :
       handleRemoveResource(index)
  /\ UNCHANGED ruleVars

ClickDropdownButton ==
  /\ toggleResourceDropdown
  /\ UNCHANGED ruleVars

\* The dropdown lists its entries while it is open.
ClickDropdownEntry(withinBudget) ==
  /\ withinBudget
  /\ isResourceDropdownOpen
  /\ \E resource \in ResourceInputs \cap dropdownResources :
       attachResource(resource)
  /\ UNCHANGED ruleVars

\* A click on no control, outside the dropdown.
ClickElsewhere ==
  /\ handleClickOutside
  /\ UNCHANGED <<roles, selectedRoleId, editingRole, deletingRoleId, edits,
                 adds, assignedIds>>
  /\ UNCHANGED ruleVars

Next ==
  \/ ClickRole
  \/ ClickCancel
  \/ TypeName(WithinBudget)
  \/ TypeDescription(WithinBudget)
  \/ ClickPermission(WithinBudget)
  \/ ClickSave
  \/ ClickAddRole(WithinBudget)
  \/ ClickDelete
  \/ ClickConfirmDelete
  \/ ClickCancelDelete
  \/ ClickRemoveResource(WithinBudget)
  \/ ClickDropdownButton
  \/ ClickDropdownEntry(WithinBudget)
  \/ ClickElsewhere

Spec == Init /\ [][Next]_vars

\* The same gestures, explored one operation deeper with at most one draft
\* edit: far enough to add twice to an emptied collection and to save an
\* edit in between.
NextDeep ==
  \/ ClickRole
  \/ ClickCancel
  \/ TypeName(WithinDeepEditBudget)
  \/ TypeDescription(WithinDeepEditBudget)
  \/ ClickPermission(WithinDeepEditBudget)
  \/ ClickSave
  \/ ClickAddRole(WithinDeepBudget)
  \/ ClickDelete
  \/ ClickConfirmDelete
  \/ ClickCancelDelete
  \/ ClickRemoveResource(WithinDeepEditBudget)
  \/ ClickDropdownButton
  \/ ClickDropdownEntry(WithinDeepEditBudget)
  \/ ClickElsewhere

SpecDeep == Init /\ [][NextDeep]_vars

\* The specification of the handlers called directly: confirmDeleteRole
\* returns at once when nothing is pending (line 178), a call the view never
\* makes, because the dialog that holds the Delete button is rendered only
\* while a deletion is pending (line 220).
CallConfirmDelete ==
  /\ deletingRoleId = Null
  /\ confirmDeleteRole
  /\ UNCHANGED isResourceDropdownOpen
  /\ UNCHANGED ruleVars

NextDirect ==
  \/ ClickRole
  \/ ClickCancel
  \/ TypeName(WithinBudget)
  \/ TypeDescription(WithinBudget)
  \/ ClickPermission(WithinBudget)
  \/ ClickSave
  \/ ClickAddRole(WithinBudget)
  \/ ClickDelete
  \/ ClickConfirmDelete
  \/ ClickCancelDelete
  \/ ClickRemoveResource(WithinBudget)
  \/ ClickDropdownButton
  \/ ClickDropdownEntry(WithinBudget)
  \/ ClickElsewhere
  \/ CallConfirmDelete

SpecDirect == Init /\ [][NextDirect]_vars

(***************************************************************************)
(* SecurityRulesClient: the handlers of the Security Rules screen.  A rule *)
(* has no description; allPermissions and allResources have the values of  *)
(* the Group Roles screen.                                                 *)
(***************************************************************************)
handleSelectRule(ruleId) ==
  /\ selectedRuleId' = ruleId
  /\ editingRule' = IF FindIndex(rules, ruleId) # 0 THEN Find(rules, ruleId)
                    ELSE editingRule
  /\ UNCHANGED <<rules, deletingRuleId>>

handleRuleNameChange(value) ==
  /\ editingRule' = [editingRule EXCEPT !.name = value]
  /\ UNCHANGED <<rules, selectedRuleId, deletingRuleId>>

\* handlePermissionChange of SecurityRulesClient.
handlePermissionChangeRule(resourceIndex, permission) ==
  /\ resourceIndex + 1 \in 1..Len(editingRule.resources)
  /\ editingRule' =
       [editingRule EXCEPT
          !.resources = updatedResources(@, resourceIndex, permission)]
  /\ UNCHANGED <<rules, selectedRuleId, deletingRuleId>>

\* handleClickOutside of SecurityRulesClient.
handleClickOutsideRule ==
  isRuleDropdownOpen' = IF isRuleDropdownOpen THEN FALSE
                        ELSE isRuleDropdownOpen

\* handleSaveChanges of SecurityRulesClient.
handleSaveChangesRule ==
  /\ rules' = [i \in 1..Len(rules) |->
                 IF rules[i].id = editingRule.id THEN editingRule ELSE rules[i]]
  /\ UNCHANGED <<selectedRuleId, editingRule, deletingRuleId>>

\* Mutant of handleAddRule: the new id is the number of rules plus one.
handleAddRule_CountId ==
  LET newId == Len(rules) + 1
      newRule == [id |-> newId,
                  name |-> "New Rule " \o NumStr(newId),
                  resources |-> <<>>]
  IN  /\ rules' = Append(rules, newRule)
      /\ selectedRuleId' = newId
      /\ editingRule' = newRule
      /\ UNCHANGED deletingRuleId

handleAddRule ==
  LET newId == Plus1(MathMax(Ids(rules)))
      newRule == [id |-> newId,
                  name |-> "New Rule " \o NumStr(newId),
                  resources |-> <<>>]
  IN  /\ rules' = Append(rules, newRule)
      /\ selectedRuleId' = newId
      /\ editingRule' = newRule
      /\ UNCHANGED deletingRuleId

handleDeleteRule(ruleId) ==
  /\ deletingRuleId' = Num(ruleId)
  /\ UNCHANGED <<rules, selectedRuleId, editingRule>>

confirmDeleteRule ==
  IF deletingRuleId = Null
  THEN UNCHANGED <<rules, selectedRuleId, editingRule, deletingRuleId>>
  ELSE LET updatedRules == FilterRoles(rules, deletingRuleId[1])
       IN  /\ rules' = updatedRules
           /\ IF Num(selectedRuleId) = deletingRuleId
              THEN /\ selectedRuleId' = IF Len(updatedRules) > 0
                                        THEN updatedRules[1].id
                                        ELSE NoSelection
                   /\ editingRule' = IF Len(updatedRules) > 0
                                     THEN updatedRules[1]
                                     ELSE editingRule
              ELSE UNCHANGED <<selectedRuleId, editingRule>>
           /\ deletingRuleId' = Null

cancelDeleteRule ==
  /\ deletingRuleId' = Null
  /\ UNCHANGED <<rules, selectedRuleId, editingRule>>

\* handleRemoveResource of SecurityRulesClient.
handleRemoveResourceRule(index) ==
  /\ index + 1 \in 1..Len(editingRule.resources)
  /\ editingRule' = [editingRule EXCEPT !.resources = Splice(@, index)]
  /\ UNCHANGED <<rules, selectedRuleId, deletingRuleId>>

\* The button that opens and closes the resource dropdown of the rule.
toggleRuleDropdown ==
  /\ isRuleDropdownOpen' = ~isRuleDropdownOpen
  /\ UNCHANGED <<rules, selectedRuleId, editingRule, deletingRuleId>>

\* The entries the open dropdown of the rule lists.
dropdownResourcesRule ==
  {allResources[i] : i \in 1..Len(allResources)}
    \ {editingRule.resources[i].name : i \in 1..Len(editingRule.resources)}

\* onClick of a dropdown entry of the rule.
attachResourceRule(resource) ==
  /\ isRuleDropdownOpen' = FALSE
  /\ editingRule' =
       [editingRule EXCEPT
          !.resources = Append(@, [name |-> resource, permissions |-> <<>>])]
  /\ UNCHANGED <<rules, selectedRuleId, deletingRuleId>>

(***************************************************************************)
(* The two screens side by side, each gesture made on both with the same   *)
(* input.  The Group Roles screen starts after its third role was deleted  *)
(* (the delete button of Moderator, then Delete in the dialog, with Member *)
(* selected): its two roles then have the ids and the resources of the two *)
(* seeded rules.                                                           *)
(***************************************************************************)
InitPair ==
  /\ roles = FilterRoles(initialRoles, 3)
  /\ selectedRoleId = 1
  /\ editingRole = initialRoles[1]
  /\ deletingRoleId = Null
  /\ isResourceDropdownOpen = FALSE
  /\ edits = 0
  /\ adds = 0
  /\ assignedIds = Range(Ids(initialRoles))
  /\ InitRules

PairClickEntity ==
  /\ handleClickOutside
  /\ handleClickOutsideRule
  /\ \E i \in 1..Len(roles) :
       /\ handleSelectRole(roles[i].id)
       /\ handleSelectRule(roles[i].id)

PairClickCancel ==
  /\ handleClickOutside
  /\ handleClickOutsideRule
  /\ handleSelectRole(selectedRoleId)
  /\ handleSelectRule(selectedRuleId)

PairTypeName ==
  /\ WithinBudget
  /\ handleClickOutside
  /\ handleClickOutsideRule
  /\ \E value \in NameInputs :
       /\ handleRoleNameChange(value)
       /\ handleRuleNameChange(value)

\* The description exists on the Group Roles screen only.
PairTypeDescription ==
  /\ WithinBudget
  /\ handleClickOutside
  /\ \E value \in DescriptionInputs : handleRoleDescriptionChange(value)
  /\ UNCHANGED ruleVars

PairClickPermission ==
  /\ WithinBudget
  /\ handleClickOutside
  /\ handleClickOutsideRule
  /\ \E index \in IndexInputs(Len(editingRole.resources)) :
       \E permission \in PermissionInputs :
         /\ handlePermissionChange(index, permission)
         /\ handlePermissionChangeRule(index, permission)

PairClickSave ==
  /\ handleClickOutside
  /\ handleClickOutsideRule
  /\ handleSaveChanges
  /\ handleSaveChangesRule

PairClickAdd ==
  /\ WithinBudget
  /\ handleClickOutside
  /\ handleClickOutsideRule
  /\ handleAddRole
  /\ handleAddRule

PairClickDelete ==
  /\ handleClickOutside
  /\ handleClickOutsideRule
  /\ \E i \in 1..Len(roles) :
       /\ handleDeleteRole(roles[i].id)
       /\ handleDeleteRule(roles[i].id)

PairClickConfirmDelete ==
  /\ deletingRoleId # Null
  /\ deletingRuleId # Null
  /\ handleClickOutside
  /\ handleClickOutsideRule
  /\ confirmDeleteRole
  /\ confirmDeleteRule

PairClickCancelDelete ==
  /\ deletingRoleId # Null
  /\ deletingRuleId # Null
  /\ handleClickOutside
  /\ handleClickOutsideRule
  /\ cancelDeleteRole
  /\ cancelDeleteRule

PairClickRemoveResource ==
  /\ WithinBudget
  /\ handleClickOutside
  /\ handleClickOutsideRule
  /\ \E index \in IndexInputs(Len(editingRole.resources)) :
       /\ handleRemoveResource(index)
       /\ handleRemoveResourceRule(index)

PairClickDropdownButton ==
  /\ toggleResourceDropdown
  /\ toggleRuleDropdown

PairClickDropdownEntry ==
  /\ WithinBudget
  /\ isResourceDropdownOpen
  /\ isRuleDropdownOpen
  /\ \E resource \in
         (ResourceInputs \cap dropdownResources) \cap dropdownResourcesRule :
       /\ attachResource(resource)
       /\ attachResourceRule(resource)

PairClickElsewhere ==
  /\ handleClickOutside
  /\ handleClickOutsideRule
  /\ UNCHANGED <<roles, selectedRoleId, editingRole, deletingRoleId, edits,
                 adds, assignedIds>>
  /\ UNCHANGED <<rules, selectedRuleId, editingRule, deletingRuleId>>

NextPair ==
  \/ PairClickEntity
  \/ PairClickCancel
  \/ PairTypeName
  \/ PairTypeDescription
  \/ PairClickPermission
  \/ PairClickSave
  \/ PairClickAdd
  \/ PairClickDelete
  \/ PairClickConfirmDelete
  \/ PairClickCancelDelete
  \/ PairClickRemoveResource
  \/ PairClickDropdownButton
  \/ PairClickDropdownEntry
  \/ PairClickElsewhere

SpecPair == InitPair /\ [][NextPair]_vars

(***************************************************************************)
(* Properties.                                                             *)
(***************************************************************************)
IdSet(rs) == Range(Ids(rs))

\* A step of one of the five draft edits, with any input the view offers.
DraftEditStep ==
  \/ \E value \in NameInputs : handleRoleNameChange(value)
  \/ \E value \in DescriptionInputs : handleRoleDescriptionChange(value)
  \/ \E index \in 0..(Len(editingRole.resources) - 1) :
       \E permission \in Range(allPermissions) :
         handlePermissionChange(index, permission)
  \/ \E index \in 0..(Len(editingRole.resources) - 1) : handleRemoveResource(index)
  \/ \E resource \in dropdownResources : attachResource(resource)

\* A step after which a role that stays in the collection has other contents.
EntryContentChanged ==
  \E id \in IdSet(roles) \cap IdSet(roles') : Find(roles', id) # Find(roles, id)

\* C1 (draft isolation): a draft edit (rename, description change,
\* attachResource, detachResource, togglePermission) leaves the collection
\* exactly as it was, and the contents of a role of the collection change
\* only in a saveDraft step.
C1_DraftIsolation ==
  [][roles' # roles =>
       /\ ~DraftEditStep
       /\ EntryContentChanged => handleSaveChanges]_vars

\* An unsaved edit: the draft of the selected role differs from the role as
\* the collection holds it, and the collection is the seeded one.
C1_Witness ==
  /\ edits > 0
  /\ roles = initialRoles
  /\ editingRole.id = selectedRoleId
  /\ editingRole # Find(roles, selectedRoleId)

\* C2 (selectEntity): for every entity E of the collection, selectEntity(E.id)
\* sets the selection to E.id and makes the draft equal to E as the collection
\* holds it at the call.
C2_SelectCopiesEntity ==
  [][\A i \in 1..Len(roles) :
       handleSelectRole(roles[i].id) =>
         /\ selectedRoleId' = roles[i].id
         /\ editingRole' = roles[i]]_vars

\* C3 (saveDraft): saveDraft replaces in place the roles of the collection
\* whose identifier is the draft's by the draft; the length and the order of
\* identifiers of the collection, every other role, the selection and the
\* draft are unchanged.
C3_SaveReplacesInPlace ==
  [][handleSaveChanges =>
       /\ Len(roles') = Len(roles)
       /\ Ids(roles') = Ids(roles)
       /\ \A i \in 1..Len(roles) :
            roles'[i] = IF roles[i].id = editingRole.id THEN editingRole
                        ELSE roles[i]
       /\ selectedRoleId' = selectedRoleId
       /\ editingRole' = editingRole]_vars

\* A saved edit of the second seeded role: the collection holds the edited
\* draft at the second place, between the two other roles as seeded.
C3_Witness ==
  /\ Len(roles) = 3
  /\ roles[1] = initialRoles[1]
  /\ roles[3] = initialRoles[3]
  /\ roles[2].id = 2
  /\ roles[2] # initialRoles[2]
  /\ roles[2] = editingRole

\* C4 (selection validity): the selection is the identifier of a role of the
\* collection, except when the collection is empty, and then it is the
\* sentinel value.
C4_SelectionValid ==
  IF Len(roles) = 0 THEN selectedRoleId = NoSelection
  ELSE selectedRoleId \in IdSet(roles)

\* The exception: every role was deleted, the collection is empty and the
\* selection is the sentinel value.
C4_Witness ==
  /\ Len(roles) = 0
  /\ selectedRoleId = NoSelection
  /\ deletingRoleId = Null

\* C5 (deleting the selected entity): when confirmDelete removes the role
\* whose identifier is the selection, the selection becomes the identifier of
\* the first role that remains, or the sentinel value if none remains.
C5_DeleteSelectedMovesSelection ==
  [][(/\ deletingRoleId = Num(selectedRoleId)
      /\ selectedRoleId \in IdSet(roles)
      /\ confirmDeleteRole) =>
       selectedRoleId' = IF Len(roles') > 0 THEN roles'[1].id ELSE NoSelection]_vars

\* The end of the scenario of the specification: of the seeded roles 1, 2, 3
\* the first was deleted, roles 2 and 3 remain as seeded, the selection is 2
\* and nothing is pending.
C5_Witness ==
  /\ roles = Tail(initialRoles)
  /\ selectedRoleId = 2
  /\ editingRole = initialRoles[2]
  /\ deletingRoleId = Null

\* C6 (the draft follows the selection): whenever the selection changes, the
\* draft becomes a copy of the role of the collection that the new selection
\* identifies; when the collection became empty the draft is cleared, so that
\* no draft of a deleted role remains.
C6_DraftFollowsSelection ==
  [][selectedRoleId' # selectedRoleId =>
       IF Len(roles') > 0
       THEN editingRole' = Find(roles', selectedRoleId')
       ELSE editingRole'.id \notin IdSet(roles)]_vars

\* C7 (addEntity): the collection after addEntity is the collection before
\* with one new role appended; the identifier of the new role is greater than
\* every identifier of the collection before, the new role has no resources,
\* the selection is its identifier and the draft equals it.
C7_AddAppendsFresh ==
  [][handleAddRole =>
       /\ Len(roles') = Len(roles) + 1
       /\ SubSeq(roles', 1, Len(roles)) = roles
       /\ \A id \in IdSet(roles) : roles'[Len(roles')].id > id
       /\ roles'[Len(roles')].resources = <<>>
       /\ selectedRoleId' = roles'[Len(roles')].id
       /\ editingRole' = roles'[Len(roles')]]_vars

\* C8 (addEntity on the empty collection): the collection then holds exactly
\* one role, whose identifier is a finite number, with no resources, and the
\* selection is that identifier.
C8_AddToEmptySeedsFiniteId ==
  [][(roles = <<>> /\ handleAddRole) =>
       /\ Len(roles') = 1
       /\ roles'[1].id # NegInfinity
       /\ roles'[1].resources = <<>>
       /\ selectedRoleId' = roles'[1].id]_vars

\* C9 (identifiers are never reused): addEntity never gives a new role an
\* identifier that a role was given before, seeded or added, deleted or not.
C9_IdsNeverReused ==
  [][handleAddRole => roles'[Len(roles')].id \notin assignedIds]_vars

\* C10 (identifier uniqueness): no two roles of the collection have the same
\* identifier.
C10_UniqueIds ==
  \A i, j \in 1..Len(roles) : i # j => roles[i].id # roles[j].id


\* C11: an entity leaves the collection only through the confirmation: every
\* step that removes an entity is a confirmDeleteRole taken while that
\* entity's id is pending, it removes exactly that one entity, and the
\* remaining entities keep their contents and their relative order.
C11_RemovalOnlyByConfirmation ==
  [][Len(roles') < Len(roles) =>
       /\ deletingRoleId # Null
       /\ confirmDeleteRole
       /\ Len(roles') = Len(roles) - 1
       /\ \E k \in 1..Len(roles) :
            /\ Num(roles[k].id) = deletingRoleId
            /\ roles' = [i \in 1..(Len(roles) - 1) |->
                           IF i < k THEN roles[i] ELSE roles[i + 1]]]_vars

\* C12: confirmDeleteRole with nothing pending leaves the collection, the
\* selection and the draft as they are, and the pending id is null after
\* every confirmDeleteRole.
C12_ConfirmClearsLatch ==
  [][confirmDeleteRole =>
       /\ deletingRoleId' = Null
       /\ deletingRoleId = Null =>
            /\ roles' = roles
            /\ selectedRoleId' = selectedRoleId
            /\ editingRole' = editingRole]_vars

\* A confirmed deletion has run, the pending id is null again, and
\* confirmDeleteRole can be called with nothing pending.
C12_Witness ==
  /\ deletingRoleId = Null
  /\ roles = Tail(initialRoles)
  /\ ENABLED CallConfirmDelete

\* C13: handleDeleteRole(id) only stores id as the pending id and
\* cancelDeleteRole only clears it; both leave the collection, the selection
\* and the draft as they are, so a request followed by a cancel gives back
\* the state before the request with nothing pending.
C13_RequestAndCancelOnlyTouchLatch ==
  [][/\ \A roleId \in IdSet(roles) :
          handleDeleteRole(roleId) =>
            /\ deletingRoleId' = Num(roleId)
            /\ roles' = roles
            /\ selectedRoleId' = selectedRoleId
            /\ editingRole' = editingRole
     /\ cancelDeleteRole =>
          /\ deletingRoleId' = Null
          /\ roles' = roles
          /\ selectedRoleId' = selectedRoleId
          /\ editingRole' = editingRole]_vars

\* The deletion of the second role was requested and nothing else changed;
\* a cancel from here gives back the initial state.
C13_Witness ==
  /\ deletingRoleId = Num(2)
  /\ roles = initialRoles
  /\ selectedRoleId = 1
  /\ editingRole = initialRoles[1]
  /\ ENABLED ClickCancelDelete


\* C14: for every attachment index of the draft and every permission, two
\* toggles in succession give back the permissions of that attachment as a
\* set and leave every other attachment as it was.
C14_ToggleTwiceRestores ==
  \A resourceIndex \in 0..(Len(editingRole.resources) - 1) :
    \A permission \in Range(allPermissions) :
      LET resources == editingRole.resources
          once == updatedResources(resources, resourceIndex, permission)
          twice == updatedResources(once, resourceIndex, permission)
      IN  /\ Len(twice) = Len(resources)
          /\ Range(twice[resourceIndex + 1].permissions)
               = Range(resources[resourceIndex + 1].permissions)
          /\ twice[resourceIndex + 1].name = resources[resourceIndex + 1].name
          /\ \A k \in 1..Len(resources) :
               k # resourceIndex + 1 =>
                 /\ once[k] = resources[k]
                 /\ twice[k] = resources[k]

\* Edit was toggled off and on again in the first attachment of the third
\* role: the same permissions, Edit now last.
C14_Witness ==
  /\ edits = 2
  /\ editingRole.id = 3
  /\ editingRole.resources =
       [initialRoles[3].resources EXCEPT
          ![1].permissions = <<"Read", "Modify", "Delete", "Post", "Edit">>]

\* C15: attaching a resource the draft does not hold appends an attachment
\* with no permissions after the attachments there are, which keep order and
\* contents, and removing the attachment at the last index afterwards gives
\* back the list of before.
C15_AttachThenDetachLast ==
  [][edits' # edits =>
     /\ \A resource \in dropdownResources :
          attachResource(resource) =>
            LET before == editingRole.resources
                after == editingRole'.resources
            IN  /\ Len(after) = Len(before) + 1
                /\ after[Len(after)] = [name |-> resource, permissions |-> <<>>]
                /\ SubSeq(after, 1, Len(before)) = before
                /\ Splice(after, Len(after) - 1) = before
     /\ handleRemoveResource(Len(editingRole.resources) - 1) =>
          editingRole'.resources
            = SubSeq(editingRole.resources, 1, Len(editingRole.resources) - 1)
    ]_vars

\* User Profiles was attached to the draft of the first role; the remove
\* button of the last row is the next click.
C15_Witness ==
  /\ edits = 1
  /\ selectedRoleId = 1
  /\ editingRole.resources =
       Append(initialRoles[1].resources,
              [name |-> "User Profiles", permissions |-> <<>>])
  /\ ENABLED ClickRemoveResource(WithinBudget)

\* The names of the attachments of a role are pairwise different and belong
\* to the catalog.
UniqueCatalogNames(role) ==
  /\ \A i, j \in 1..Len(role.resources) :
       i # j => role.resources[i].name # role.resources[j].name
  /\ \A i \in 1..Len(role.resources) :
       role.resources[i].name \in Range(allResources)

\* C16: no two attachments of a role share a resource name, in every role of
\* the collection and in the draft, and every attached name is in the catalog.
C16_ResourceNamesUnique ==
  /\ UniqueCatalogNames(editingRole)
  /\ \A i \in 1..Len(roles) : UniqueCatalogNames(roles[i])

\* User Profiles was attached to the first role and saved.
C16_Witness ==
  /\ Len(roles) > 0
  /\ roles[1].id = 1
  /\ Len(roles[1].resources) = 5
  /\ roles[1].resources[5].name = "User Profiles"
  /\ editingRole = roles[1]

\* The permissions of every attachment of a role belong to the enumeration
\* and none occurs twice.
PermissionSets(role) ==
  \A i \in 1..Len(role.resources) :
    LET permissions == role.resources[i].permissions
    IN  /\ Range(permissions) \subseteq Range(allPermissions)
        /\ \A j, k \in 1..Len(permissions) :
             j # k => permissions[j] # permissions[k]

\* C17: every permission list, in the collection and in the draft, holds
\* members of the permission enumeration only and none more than once.
C17_PermissionSets ==
  /\ PermissionSets(editingRole)
  /\ \A i \in 1..Len(roles) : PermissionSets(roles[i])

\* Edit was toggled on in the first attachment of the first role and saved.
C17_Witness ==
  /\ Len(roles) > 0
  /\ roles[1].id = 1
  /\ roles[1].resources[1].permissions = <<"Read", "Add", "Delete", "Edit">>
  /\ editingRole = roles[1]

\* C18: a toggle removes the permission from the attachment when it is
\* there and adds it otherwise, and changes nothing else: the name of the
\* attachment, the other attachments, the number and order of attachments,
\* the id, name and description of the draft, the selection and the pending
\* id.
C18_ToggleChangesOnlyThatPermission ==
  [][edits' # edits =>
     \A resourceIndex \in 0..(Len(editingRole.resources) - 1) :
       \A permission \in Range(allPermissions) :
         handlePermissionChange(resourceIndex, permission) =>
           LET before == editingRole.resources
               after == editingRole'.resources
           IN  /\ Len(after) = Len(before)
               /\ Range(after[resourceIndex + 1].permissions) =
                    IF permission \in Range(before[resourceIndex + 1].permissions)
                    THEN Range(before[resourceIndex + 1].permissions)
                           \ {permission}
                    ELSE Range(before[resourceIndex + 1].permissions)
                           \cup {permission}
               /\ after[resourceIndex + 1].name = before[resourceIndex + 1].name
               /\ \A k \in 1..Len(before) :
                    k # resourceIndex + 1 => after[k] = before[k]
               /\ editingRole'.id = editingRole.id
               /\ editingRole'.name = editingRole.name
               /\ editingRole'.description = editingRole.description
               /\ selectedRoleId' = selectedRoleId
               /\ deletingRoleId' = deletingRoleId]_vars

\* Edit was toggled on in the last attachment of the first role; the
\* attachments before it are as seeded.
C18_Witness ==
  /\ edits = 1
  /\ selectedRoleId = 1
  /\ editingRole =
       [initialRoles[1] EXCEPT !.resources[4].permissions = <<"Post", "Edit">>]

\* C19: removing the attachment at an index of the list makes the list one
\* shorter; the attachments before the index stay where they are, those
\* after it move down by one, and the id, name and description of the draft
\* stay.
C19_DetachRemovesExactlyThat ==
  [][edits' # edits =>
     \A index \in 0..(Len(editingRole.resources) - 1) :
       handleRemoveResource(index) =>
         LET before == editingRole.resources
             after == editingRole'.resources
         IN  /\ Len(after) = Len(before) - 1
             /\ \A k \in 1..index : after[k] = before[k]
             /\ \A k \in (index + 1)..Len(after) : after[k] = before[k + 1]
             /\ editingRole'.id = editingRole.id
             /\ editingRole'.name = editingRole.name
             /\ editingRole'.description = editingRole.description]_vars

\* The first attachment of the first role was removed; the three others
\* moved down by one.
C19_Witness ==
  /\ edits = 1
  /\ selectedRoleId = 1
  /\ editingRole = [initialRoles[1] EXCEPT !.resources = Tail(@)]

\* C20: a save while no role of the collection has the id of the draft
\* changes nothing: the collection, the selection, the draft and the pending
\* id stay, and the deleted role is not put back.
C20_SaveOfStaleDraftIsNoOp ==
  [][/\ editingRole.id \notin IdSet(roles)
     /\ handleSaveChanges
     => /\ roles' = roles
        /\ selectedRoleId' = selectedRoleId
        /\ editingRole' = editingRole
        /\ deletingRoleId' = deletingRoleId]_vars

\* Every role was deleted, the draft is still the one of the role deleted
\* last, and Save Changes can be clicked.
C20_Witness ==
  /\ roles = <<>>
  /\ selectedRoleId = NoSelection
  /\ editingRole.id \in IdSet(initialRoles)
  /\ ENABLED ClickSave


\* C21: while the collection is not empty the id of the draft is the
\* selection and is the id of a role of the collection, so a save commits
\* to the role shown as selected.
C21_DraftAgreesWithSelection ==
  Len(roles) > 0 =>
    /\ editingRole.id = selectedRoleId
    /\ editingRole.id \in IdSet(roles)

\* A role was added after a deletion: the draft is the new role, which is
\* the selection.
C21_Witness ==
  /\ adds = 1
  /\ Len(roles) = 3
  /\ selectedRoleId \notin IdSet(initialRoles)
  /\ editingRole = roles[3]

\* C22: in every state the role the view shows in its header, the role of
\* the collection with the selected id or else the first role, exists.
C22_RenderSafe == selectedRole # 0

\* C23: a confirmed deletion of a role other than the selected one leaves
\* the selection and the draft, so the unsaved edits of the selected role
\* survive it.
C23_DeleteOtherKeepsDraft ==
  [][/\ deletingRoleId # Null
     /\ deletingRoleId # Num(selectedRoleId)
     /\ confirmDeleteRole
     => /\ selectedRoleId' = selectedRoleId
        /\ editingRole' = editingRole]_vars

\* The first role was renamed in the draft and not saved, then the second
\* role was deleted: the draft still holds the new name.
C23_Witness ==
  /\ roles = <<initialRoles[1], initialRoles[3]>>
  /\ selectedRoleId = 1
  /\ editingRole = [initialRoles[1] EXCEPT !.name = "Renamed"]
  /\ deletingRoleId = Null

\* C24: the pending id is null or the id of a role of the collection.
C24_LatchNamesListedRole ==
  deletingRoleId # Null => deletingRoleId[1] \in IdSet(roles)

\* The first role was deleted and the deletion of the third is pending.
C24_Witness ==
  /\ roles = Tail(initialRoles)
  /\ deletingRoleId = Num(3)

\* C25: with a collection that is not empty, a save leaves the collection
\* such that a second save changes nothing and a Cancel gives the draft
\* there is; and a Cancel makes the draft the role of the collection with
\* the selected id and leaves the collection.
C25_SaveCancelRoundTrip ==
  [][Len(roles) > 0 /\ edits' = edits /\ adds' = adds =>
       /\ handleSaveChanges =>
            /\ \A i \in 1..Len(roles') :
                 roles'[i].id = editingRole'.id => roles'[i] = editingRole'
            /\ FindIndex(roles', selectedRoleId') # 0
            /\ Find(roles', selectedRoleId') = editingRole'
            /\ editingRole' = editingRole
       /\ handleSelectRole(selectedRoleId) =>
            /\ FindIndex(roles, selectedRoleId) # 0
            /\ editingRole' = Find(roles, selectedRoleId)
            /\ selectedRoleId' = selectedRoleId
            /\ roles' = roles]_vars

\* The first role was renamed and saved, its description was changed in the
\* draft, and Cancel put the saved role back into the draft.
C25_Witness ==
  /\ edits = 2
  /\ selectedRoleId = 1
  /\ Len(roles) = 3
  /\ roles[1] = [initialRoles[1] EXCEPT !.name = "Renamed"]
  /\ editingRole = roles[1]


\* C26: the Security Rules screen and the Group Roles screen, started from
\* the same collection up to names and descriptions and driven by the same
\* gestures, agree after every step on the ids and the order of the
\* collection, on the resources and permissions of every entity, on the
\* selection, on the id and the resources of the draft and on the pending
\* id.
C26_ScreensAgree ==
  /\ Len(rules) = Len(roles)
  /\ \A i \in 1..Len(roles) :
       /\ i <= Len(rules)
       /\ rules[i].id = roles[i].id
       /\ rules[i].resources = roles[i].resources
  /\ selectedRuleId = selectedRoleId
  /\ editingRule.id = editingRole.id
  /\ editingRule.resources = editingRole.resources
  /\ deletingRuleId = deletingRoleId

\* An entity was added on both screens and a toggle was made in the draft
\* of the first entity and saved.
C26_Witness ==
  /\ adds = 1
  /\ edits = 1
  /\ Len(rules) = 3
  /\ rules[3].name = "New Rule 3"
  /\ roles[3].name = "New 3"
  /\ rules[1].resources[1].permissions = <<"Read", "Add", "Delete", "Edit">>
  /\ roles[1].resources[1].permissions = <<"Read", "Add", "Delete", "Edit">>

====
